---------------------------- MODULE Spec2Model ----------------------------
(***************************************************************************)
(* JohnsonSU (tensorflow_probability/python/distributions/johnson_su.py).   *)
(*                                                                         *)
(* The distribution object is modelled with its four parameters (each a    *)
(* fixed tensor or a reference to a variable), its dtype and validate_args, *)
(* and one action per operation.  Operations are executed eagerly: an      *)
(* assertion raises where it is created.                                   *)
(*                                                                         *)
(* Numbers are fixed-point floats: the integer v stands for v / Unit, the  *)
(* values beyond MaxFloat are +inf, -inf and NaN.  Shapes are sequences of *)
(* dimension sizes; tensors carry their shape and their elements in        *)
(* row-major order.                                                        *)
(***************************************************************************)
EXTENDS Integers, Sequences, FiniteSets, TLC

(***************************************************************************)
(* Bounds of the model.                                                    *)
(***************************************************************************)
HalfUnit == 5         \* the fixed-point value of 0.5
MaxFloat == 3000      \* largest finite float; beyond it, overflow to inf
MaxN == 2             \* sample(n): n in 1..MaxN
MaxSeed == 1          \* seeds 0..MaxSeed
MaxUnknown == 1       \* parameters whose static shape is not fully known
MaxRefs == 2          \* parameters passed as variables

(***************************************************************************)
(* Floats.                                                                 *)
(***************************************************************************)
\* the fixed-point denominator: v stands for v / Unit
Unit == 2 * HalfUnit
PInf == MaxFloat + 1
NInf == 0 - PInf
NaN == MaxFloat + 2
Float == NInf..NaN

Abs(a) == IF a < 0 THEN 0 - a ELSE a
Sgn(a) == IF a < 0 THEN 0 - 1 ELSE IF a > 0 THEN 1 ELSE 0
\* integer division rounding toward zero, as float arithmetic is sign-symmetric
TDiv(a, b) == Sgn(a) * Sgn(b) * (Abs(a) \div Abs(b))
Clamp(v) == IF v > MaxFloat THEN PInf ELSE IF v < 0 - MaxFloat THEN NInf ELSE v
IsInf(a) == a = PInf \/ a = NInf

FNeg(a) == IF a = NaN THEN NaN ELSE 0 - a
FAdd(a, b) ==
  IF a = NaN \/ b = NaN THEN NaN
  ELSE IF IsInf(a) THEN (IF IsInf(b) /\ b # a THEN NaN ELSE a)
  ELSE IF IsInf(b) THEN b
  ELSE Clamp(a + b)
FSub(a, b) == FAdd(a, FNeg(b))
FMul(a, b) ==
  IF a = NaN \/ b = NaN THEN NaN
  ELSE IF IsInf(a) \/ IsInf(b)
       THEN (IF a = 0 \/ b = 0 THEN NaN
             ELSE IF Sgn(a) * Sgn(b) > 0 THEN PInf ELSE NInf)
  ELSE Clamp(TDiv(a * b, Unit))
FDiv(a, b) ==
  IF a = NaN \/ b = NaN THEN NaN
  ELSE IF IsInf(a) THEN (IF IsInf(b) THEN NaN
                         ELSE IF b < 0 THEN FNeg(a) ELSE a)
  ELSE IF IsInf(b) THEN 0
  ELSE IF b = 0 THEN (IF a = 0 THEN NaN ELSE IF a > 0 THEN PInf ELSE NInf)
  ELSE Clamp(TDiv(a * Unit, b))
FSquare(a) == FMul(a, a)

(***************************************************************************)
(* The special functions of the numerical library, on the fixed-point      *)
(* grid.  Each keeps the properties of the real function the formulas of   *)
(* the distribution rest on: exp is positive and increasing with           *)
(* exp(-a) = 1 / exp(a); sinh and asinh are odd and increasing; log is     *)
(* NaN below 0 and -inf at 0; ndtr is increasing with                       *)
(* ndtr(-t) = 1 - ndtr(t), ndtri is its inverse on (0, 1).                 *)
(***************************************************************************)
ExpArgMax == 100 * Unit
ExpPos(a) ==
  IF a > ExpArgMax THEN PInf
  ELSE Clamp(Unit + a + ((a * a) \div (2 * Unit))
                  + ((a * a * a) \div (6 * Unit * Unit)))
ExpFinite(a) ==
  IF a >= 0 THEN ExpPos(a)
  ELSE LET e == ExpPos(0 - a) IN IF e = PInf THEN 0 ELSE (Unit * Unit) \div e
\* the functions are tabulated over the finite floats, once
ExpTable == [a \in (0 - MaxFloat)..MaxFloat |-> ExpFinite(a)]
FExp(a) ==
  IF a = NaN THEN NaN
  ELSE IF a = PInf THEN PInf
  ELSE IF a = NInf THEN 0
  ELSE ExpTable[a]
FExpm1(a) == FSub(FExp(a), Unit)
FSinh(a) == FDiv(FSub(FExp(a), FExp(FNeg(a))), 2 * Unit)
FCosh(a) == FDiv(FAdd(FExp(a), FExp(FNeg(a))), 2 * Unit)

\* the largest t in lo..hi with FExp(t) <= y (FExp(lo) <= y is given)
RECURSIVE BisectExp(_, _, _)
BisectExp(lo, hi, y) ==
  IF lo >= hi THEN lo
  ELSE LET mid == (lo + hi + 1) \div 2
       IN IF FExp(mid) <= y THEN BisectExp(mid, hi, y)
          ELSE BisectExp(lo, mid - 1, y)
LogTable == [a \in 1..MaxFloat |-> BisectExp(0 - ExpArgMax, ExpArgMax, a)]
FLog(a) ==
  IF a = NaN \/ a < 0 THEN NaN
  ELSE IF a = 0 THEN NInf
  ELSE IF a = PInf THEN PInf
  ELSE LogTable[a]

\* the largest t in lo..hi with FSinh(t) <= y (FSinh(lo) <= y is given)
RECURSIVE BisectSinh(_, _, _)
BisectSinh(lo, hi, y) ==
  IF lo >= hi THEN lo
  ELSE LET mid == (lo + hi + 1) \div 2
       IN IF FSinh(mid) <= y THEN BisectSinh(mid, hi, y)
          ELSE BisectSinh(lo, mid - 1, y)
AsinhTable == [y \in 0..MaxFloat |-> BisectSinh(0, ExpArgMax, y)]
FAsinh(y) ==
  IF y = NaN THEN NaN
  ELSE IF IsInf(y) THEN y
  ELSE IF y >= 0 THEN AsinhTable[y]
  ELSE 0 - AsinhTable[0 - y]

\* the upper tail 1 - ndtr(t) for t >= 0
NdtrTail(t) ==
  IF t = PInf THEN 0
  ELSE LET e == ExpPos((17 * t) \div 10)
       IN IF e = PInf THEN 0 ELSE (Unit * Unit) \div (Unit + e)
FNdtr(t) ==
  IF t = NaN THEN NaN
  ELSE IF t >= 0 THEN Unit - NdtrTail(t)
  ELSE NdtrTail(0 - t)
\* the largest t in lo..hi with FNdtr(t) <= u (FNdtr(lo) <= u is given)
RECURSIVE BisectNdtr(_, _, _)
BisectNdtr(lo, hi, u) ==
  IF lo >= hi THEN lo
  ELSE LET mid == (lo + hi + 1) \div 2
       IN IF FNdtr(mid) <= u THEN BisectNdtr(mid, hi, u)
          ELSE BisectNdtr(lo, mid - 1, u)
NdtriTable == [u \in 1..(Unit - 1) |-> BisectNdtr(0, ExpArgMax, u)]
FNdtri(u) ==
  IF u = NaN \/ u < 0 \/ u > Unit THEN NaN
  ELSE IF u = 0 THEN NInf
  ELSE IF u = Unit THEN PInf
  ELSE IF 2 * u = Unit THEN 0
  ELSE IF 2 * u > Unit THEN NdtriTable[u]
  ELSE 0 - NdtriTable[Unit - u]

(***************************************************************************)
(* Shapes.  A dynamic shape is a sequence of sizes.  A static shape is what *)
(* is known before the values are: a sequence whose unknown sizes are      *)
(* UnknownDim, or no sequence at all when the rank is unknown.  A broadcast *)
(* that fails yields Incompatible, which every later step passes on (the   *)
(* exception propagates).                                                  *)
(***************************************************************************)
UnknownDim == 0 - 1
Known(dims) == [rank |-> "known", dims |-> dims]
UnknownRank == [rank |-> "unknown", dims |-> <<>>]
Incompatible == [rank |-> "error", dims |-> <<>>]

RECURSIVE Prod(_)
Prod(s) == IF s = <<>> THEN 1 ELSE Head(s) * Prod(Tail(s))
Max(a, b) == IF a >= b THEN a ELSE b
\* the size at position i of s once s is left-padded with 1s to rank n
Padded(s, n, i) == IF i <= n - Len(s) THEN 1 ELSE s[i - (n - Len(s))]

\* one dimension of tf.broadcast_static_shape; 0 stands for "no broadcast"
BroadcastStaticDim(dx, dy) ==
  IF dx = UnknownDim \/ dy = UnknownDim
  THEN (IF dx # UnknownDim /\ dx > 1 THEN dx
        ELSE IF dy # UnknownDim /\ dy > 1 THEN dy
        ELSE UnknownDim)
  ELSE IF dx = 1 THEN dy
  ELSE IF dy = 1 THEN dx
  ELSE IF dx = dy THEN dx
  ELSE 0
BroadcastStaticShape(x, y) ==
  IF x.rank = "error" \/ y.rank = "error" THEN Incompatible
  ELSE IF x.rank = "unknown" \/ y.rank = "unknown" THEN UnknownRank
  ELSE LET n == Max(Len(x.dims), Len(y.dims))
           d == [i \in 1..n |->
                   BroadcastStaticDim(Padded(x.dims, n, i), Padded(y.dims, n, i))]
       IN IF \E i \in 1..n : d[i] = 0 THEN Incompatible ELSE Known(d)

\* broadcast of two dynamic shapes
BroadcastShape(x, y) ==
  IF x.rank = "error" \/ y.rank = "error" THEN Incompatible
  ELSE LET n == Max(Len(x.dims), Len(y.dims))
           dx(i) == Padded(x.dims, n, i)
           dy(i) == Padded(y.dims, n, i)
       IN IF \E i \in 1..n : dx(i) # dy(i) /\ dx(i) # 1 /\ dy(i) # 1
          THEN Incompatible
          ELSE Known([i \in 1..n |-> IF dx(i) = 1 THEN dy(i) ELSE dx(i)])

(***************************************************************************)
(* Tensors: [err, shape, elems], elems in row-major order.  err = TRUE is  *)
(* the failure of an operation on incompatible shapes.                     *)
(***************************************************************************)
Tensor(shape, elems) == [err |-> FALSE, shape |-> shape, elems |-> elems]
ShapeErrorT == [err |-> TRUE, shape |-> <<>>, elems |-> <<>>]
Scalar(v) == Tensor(<<>>, <<v>>)
Fill(shape, v) == Tensor(shape, [k \in 1..Prod(shape) |-> v])

Front(s) == SubSeq(s, 1, Len(s) - 1)
\* the row-major offset, in a tensor of shape ts, of the element that offset
\* k0 of its broadcast to shape os reads: a size-1 dimension is read at 0
RECURSIVE SourceOffset(_, _, _)
SourceOffset(ts, os, k0) ==
  IF ts = <<>> THEN 0
  ELSE LET d == os[Len(os)]
           td == ts[Len(ts)]
       IN SourceOffset(Front(ts), Front(os), k0 \div d) * td
            + (IF td = 1 THEN 0 ELSE k0 % d)
\* the element of t that position k of its broadcast to shape `out` reads
At(t, out, k) ==
  IF t.shape = out THEN t.elems[k]
  ELSE IF t.shape = <<>> THEN t.elems[1]
  ELSE t.elems[SourceOffset(t.shape, out, k - 1) + 1]

\* math.log1psquare
log1psquare(y) == FLog(FAdd(Unit, FSquare(y)))

\* the scalar operations by name
Apply2(op, x, y) ==
  CASE op = "FMul" -> FMul(x, y)
    [] op = "FDiv" -> FDiv(x, y)
    [] op = "FSub" -> FSub(x, y)
    [] op = "FAdd" -> FAdd(x, y)
Apply1(op, x) ==
  CASE op = "FSquare" -> FSquare(x)
    [] op = "FSinh" -> FSinh(x)
    [] op = "FAsinh" -> FAsinh(x)
    [] op = "FExp" -> FExp(x)
    [] op = "FNdtri" -> FNdtri(x)
    [] op = "FCosh" -> FCosh(x)
    [] op = "FExpm1" -> FExpm1(x)
    [] op = "FLog" -> FLog(x)
    [] op = "log1psquare" -> log1psquare(x)
    [] op = "FNdtr" -> FNdtr(x)
    [] op = "FNeg" -> FNeg(x)
    [] op = "Abs" -> Abs(x)
\* an elementwise binary operation, with broadcasting
TBin(op, a, b) ==
  IF a.err \/ b.err THEN ShapeErrorT
  ELSE LET s == BroadcastShape(Known(a.shape), Known(b.shape))
       IN IF s.rank = "error" THEN ShapeErrorT
          ELSE Tensor(s.dims, [k \in 1..Prod(s.dims) |->
                                 Apply2(op, At(a, s.dims, k), At(b, s.dims, k))])
TUn(op, a) ==
  IF a.err THEN ShapeErrorT
  ELSE Tensor(a.shape, [k \in 1..Len(a.elems) |-> Apply1(op, a.elems[k])])
\* tf.ones(shape), shape the result of a shape computation
Ones(s) == IF s.rank = "error" THEN ShapeErrorT ELSE Fill(s.dims, Unit)

(***************************************************************************)
(* The distribution object.                                                *)
(*                                                                         *)
(* A constructor argument is [dtype, ref, static, value]: dtype "none" is a *)
(* Python number or list, which carries no dtype; ref says the argument is *)
(* a variable, whose current value lives in store; static is its static    *)
(* shape; value is its value when the constructor runs.                    *)
(***************************************************************************)
VARIABLES pc, self, store, last, assigned
vars == <<pc, self, store, last, assigned>>

ParamNames == <<"gamma", "delta", "loc", "scale">>
Params == {"gamma", "delta", "loc", "scale"}
DType == {"none", "float32", "float64", "int32"}
None == Tensor(<<>>, <<>>)
NoShape == Known(<<>>)
NoMsg == [text |-> "", shapes |-> <<>>]

\* what an operation leaves behind: its status (ok or the exception), the
\* exception's message, the assertions it ran, and its results
Outcome(status, msg, checks, val, shape, u) ==
  [status |-> status, msg |-> msg, checks |-> checks,
   val |-> val, shape |-> shape, u |-> u]
Ok(checks, val, shape, u) == Outcome("ok", NoMsg, checks, val, shape, u)
Raise(status, msg, checks) == Outcome(status, msg, checks, None, NoShape, None)

\* dtype_util.common_dtype: the dtype the arguments that carry one agree on
common_dtype(dtypes, dtype_hint) ==
  LET seen == {dtypes[i] : i \in 1..Len(dtypes)} \ {"none"}
  IN IF Cardinality(seen) > 1 THEN "TypeError"
     ELSE IF seen = {} THEN dtype_hint
     ELSE CHOOSE d \in seen : TRUE
\* dtype_util.assert_same_float_dtype
assert_same_float_dtype(dtypes) ==
  \A i \in 1..Len(dtypes) : dtypes[i] = dtypes[1] /\ dtypes[i] \in {"float32", "float64"}

is_ref(p) == p.ref
\* tensor_util.convert_nonref_to_tensor: a variable is kept as it is, anything
\* else becomes a tensor of the given dtype
convert_nonref_to_tensor(arg, name, dtype) ==
  IF arg.ref
  THEN [ref |-> TRUE, name |-> name, dtype |-> arg.dtype, static |-> arg.static]
  ELSE [ref |-> FALSE, name |-> name, dtype |-> dtype, static |-> arg.static,
        value |-> arg.value]
\* tf.convert_to_tensor: the value a parameter has now
convert_to_tensor(p, st) == IF p.ref THEN st[p.name] ELSE p.value
\* prefer_static.shape
shape(t) == Known(t.shape)

\* a constructor that converts every argument, variables too, and so keeps
\* the value the variable has at construction
StoreParameterConverted(arg, name, dtype) ==
  [ref |-> FALSE, name |-> name, dtype |-> dtype, static |-> arg.static,
   value |-> arg.value]
\* johnson_su.py: self._gamma = tensor_util.convert_nonref_to_tensor(gamma, ...)
StoreParameter(arg, name, dtype) == convert_nonref_to_tensor(arg, name, dtype)

\* FLt: IEEE comparison, false on NaN
FLt(a, b) == a # NaN /\ b # NaN /\ a < b
\* assert_util.assert_positive
assert_positive(t) == \A k \in 1..Len(t.elems) : FLt(0, t.elems[k])

\* a static batch shape that leaves scale out of the broadcast
_batch_shape_without_scale(slf) ==
  BroadcastStaticShape(
    BroadcastStaticShape(slf.gamma.static, slf.delta.static),
    slf.loc.static)
_batch_shape(slf) ==
  BroadcastStaticShape(
    BroadcastStaticShape(
      BroadcastStaticShape(slf.gamma.static, slf.delta.static),
      slf.loc.static),
    slf.scale.static)

\* a dynamic batch shape that leaves scale out of the broadcast
_batch_shape_tensor_without_scale(slf, st, gamma, delta, loc, scale) ==
  BroadcastShape(
    BroadcastShape(
      shape(IF gamma = None THEN convert_to_tensor(slf.gamma, st) ELSE gamma),
      shape(IF delta = None THEN convert_to_tensor(slf.delta, st) ELSE delta)),
    shape(IF loc = None THEN convert_to_tensor(slf.loc, st) ELSE loc))
_batch_shape_tensor(slf, st, gamma, delta, loc, scale) ==
  BroadcastShape(
    BroadcastShape(
      BroadcastShape(
        shape(IF gamma = None THEN convert_to_tensor(slf.gamma, st) ELSE gamma),
        shape(IF delta = None THEN convert_to_tensor(slf.delta, st) ELSE delta)),
      shape(IF loc = None THEN convert_to_tensor(slf.loc, st) ELSE loc)),
    shape(IF scale = None THEN convert_to_tensor(slf.scale, st) ELSE scale))

\* an event shape that takes the batch dimensions for event dimensions
_event_shape_tensor_of_batch(slf) == _batch_shape(slf)
_event_shape_tensor(slf) == Known(<<>>)
_event_shape(slf) == Known(<<>>)

DeltaMessage == [text |-> "Argument delta must be positive.", shapes |-> <<>>]
ScaleMessage == [text |-> "Argument scale must be positive.", shapes |-> <<>>]
ShapesMessage(slf) ==
  [text |-> "Arguments must have compatible shapes; ",
   shapes |-> <<slf.gamma.static, slf.delta.static, slf.loc.static, slf.scale.static>>]

\* control dependencies that assert whatever validate_args is
_parameter_control_dependencies_always_asserting(slf, st, is_init) ==
  IF is_init /\ _batch_shape(slf).rank = "error"
  THEN Raise("ValueError", ShapesMessage(slf), <<>>)
  ELSE LET checkDelta == is_init # is_ref(slf.delta)
           checkScale == is_init # is_ref(slf.scale)
           c1 == IF checkDelta THEN <<"delta">> ELSE <<>>
           c2 == IF checkScale THEN c1 \o <<"scale">> ELSE c1
       IN IF checkDelta /\ ~assert_positive(convert_to_tensor(slf.delta, st))
          THEN Raise("InvalidArgumentError", DeltaMessage, c1)
          ELSE IF checkScale /\ ~assert_positive(convert_to_tensor(slf.scale, st))
          THEN Raise("InvalidArgumentError", ScaleMessage, c2)
          ELSE Ok(c2, None, NoShape, None)
\* control dependencies that assert at construction only, variables included
_parameter_control_dependencies_at_init_only(slf, st, is_init) ==
  IF is_init /\ _batch_shape(slf).rank = "error"
  THEN Raise("ValueError", ShapesMessage(slf), <<>>)
  ELSE IF ~slf.validate_args \/ ~is_init THEN Ok(<<>>, None, NoShape, None)
  ELSE IF ~assert_positive(convert_to_tensor(slf.delta, st))
  THEN Raise("InvalidArgumentError", DeltaMessage, <<"delta">>)
  ELSE IF ~assert_positive(convert_to_tensor(slf.scale, st))
  THEN Raise("InvalidArgumentError", ScaleMessage, <<"delta", "scale">>)
  ELSE Ok(<<"delta", "scale">>, None, NoShape, None)
\* the outcome is ok with the assertions that ran, or the first exception
_parameter_control_dependencies(slf, st, is_init) ==
  IF is_init /\ _batch_shape(slf).rank = "error"
  THEN Raise("ValueError", ShapesMessage(slf), <<>>)
  ELSE IF ~slf.validate_args THEN Ok(<<>>, None, NoShape, None)
  ELSE LET checkDelta == is_init # is_ref(slf.delta)
           checkScale == is_init # is_ref(slf.scale)
           c1 == IF checkDelta THEN <<"delta">> ELSE <<>>
           c2 == IF checkScale THEN c1 \o <<"scale">> ELSE c1
       IN IF checkDelta /\ ~assert_positive(convert_to_tensor(slf.delta, st))
          THEN Raise("InvalidArgumentError", DeltaMessage, c1)
          ELSE IF checkScale /\ ~assert_positive(convert_to_tensor(slf.scale, st))
          THEN Raise("InvalidArgumentError", ScaleMessage, c2)
          ELSE Ok(c2, None, NoShape, None)

(***************************************************************************)
(* The numeric methods, statement by statement.                            *)
(***************************************************************************)
Half == HalfUnit
\* 0.5 * np.log(2. * np.pi) = 0.9189...
HalfLog2Pi == (92 * Unit) \div 100
\* SeedStream(seed, 'johnson_su')(): the seed salted, a fixed function of it
SeedStream(seed) == (31 * seed + 17) % 97
\* tf.random.uniform(shape, minval=0., maxval=1., seed): values in [0, 1) fixed
\* by the seed and the position
random_uniform(shp, seed) ==
  Tensor(shp, [k \in 1..Prod(shp) |-> (seed + 3 * k) % Unit])

\* a sampler that puts the n draws after the batch dimensions
_sample_n_batch_first(slf, st, n, seed) ==
  LET gamma == convert_to_tensor(slf.gamma, st)
      delta == convert_to_tensor(slf.delta, st)
      loc == convert_to_tensor(slf.loc, st)
      scale == convert_to_tensor(slf.scale, st)
      batch_shape == _batch_shape_tensor(slf, st, gamma, delta, loc, scale)
  IN IF batch_shape.rank = "error" THEN [val |-> ShapeErrorT, u |-> None]
     ELSE LET u == random_uniform(batch_shape.dims \o <<n>>, SeedStream(seed))
              samples == TUn("FSinh", TBin("FDiv", TBin("FSub", TUn("FNdtri", u), gamma),
                                         delta))
          IN [val |-> TBin("FAdd", TBin("FMul", samples, scale), loc), u |-> u]
_sample_n(slf, st, n, seed) ==
  LET gamma == convert_to_tensor(slf.gamma, st)
      delta == convert_to_tensor(slf.delta, st)
      loc == convert_to_tensor(slf.loc, st)
      scale == convert_to_tensor(slf.scale, st)
      batch_shape == _batch_shape_tensor(slf, st, gamma, delta, loc, scale)
  IN IF batch_shape.rank = "error" THEN [val |-> ShapeErrorT, u |-> None]
     ELSE LET u == random_uniform(<<n>> \o batch_shape.dims, SeedStream(seed))
              samples == TUn("FSinh", TBin("FDiv", TBin("FSub", TUn("FNdtri", u), gamma),
                                         delta))
          IN [val |-> TBin("FAdd", TBin("FMul", samples, scale), loc), u |-> u]

\* a log_prob over Abs(scale)
_log_prob_abs_scale(slf, st, x) ==
  LET gamma == convert_to_tensor(slf.gamma, st)
      delta == convert_to_tensor(slf.delta, st)
      scale == TUn("Abs", convert_to_tensor(slf.scale, st))
      loc == convert_to_tensor(slf.loc, st)
      y == TBin("FDiv", TBin("FSub", x, loc), scale)
      log_unnormalized ==
        TBin("FSub",
             TBin("FMul", Scalar(0 - Half), TUn("log1psquare", y)),
             TBin("FMul", Scalar(Half),
                  TUn("FSquare",
                      TBin("FAdd", gamma, TBin("FMul", delta, TUn("FAsinh", y))))))
      log_normalization ==
        TBin("FAdd", TUn("FLog", TBin("FDiv", scale, delta)), Scalar(HalfLog2Pi))
  IN TBin("FSub", log_unnormalized, log_normalization)
_log_prob(slf, st, x) ==
  LET gamma == convert_to_tensor(slf.gamma, st)
      delta == convert_to_tensor(slf.delta, st)
      scale == convert_to_tensor(slf.scale, st)
      loc == convert_to_tensor(slf.loc, st)
      y == TBin("FDiv", TBin("FSub", x, loc), scale)
      log_unnormalized ==
        TBin("FSub",
             TBin("FMul", Scalar(0 - Half), TUn("log1psquare", y)),
             TBin("FMul", Scalar(Half),
                  TUn("FSquare",
                      TBin("FAdd", gamma, TBin("FMul", delta, TUn("FAsinh", y))))))
      log_normalization ==
        TBin("FAdd", TUn("FLog", TBin("FDiv", scale, delta)), Scalar(HalfLog2Pi))
  IN TBin("FSub", log_unnormalized, log_normalization)

_cdf(slf, st, x) ==
  LET gamma == convert_to_tensor(slf.gamma, st)
      delta == convert_to_tensor(slf.delta, st)
      scale == convert_to_tensor(slf.scale, st)
      loc == convert_to_tensor(slf.loc, st)
      y == TBin("FDiv", TBin("FSub", x, loc), scale)
  IN TUn("FNdtr", TBin("FAdd", gamma, TBin("FMul", delta, TUn("FAsinh", y))))

_mean(slf, st) ==
  LET gamma0 == convert_to_tensor(slf.gamma, st)
      delta0 == convert_to_tensor(slf.delta, st)
      scale0 == convert_to_tensor(slf.scale, st)
      loc0 == convert_to_tensor(slf.loc, st)
      gamma == TBin("FMul", gamma0,
                    Ones(_batch_shape_tensor(slf, st, gamma0, None, None, None)))
      delta == TBin("FMul", delta0,
                    Ones(_batch_shape_tensor(slf, st, None, delta0, None, None)))
      scale == TBin("FMul", scale0,
                    Ones(_batch_shape_tensor(slf, st, None, None, None, scale0)))
      loc == TBin("FMul", loc0,
                  Ones(_batch_shape_tensor(slf, st, None, None, loc0, None)))
  IN TBin("FSub", loc,
          TBin("FMul",
               TBin("FMul", scale,
                    TUn("FExp", TBin("FDiv", Scalar(Half), TUn("FSquare", delta)))),
               TUn("FSinh", TBin("FDiv", gamma, delta))))

\* a variance of the parameters as they are, not expanded to the batch shape
_variance_unexpanded(slf, st) ==
  LET gamma == convert_to_tensor(slf.gamma, st)
      delta == convert_to_tensor(slf.delta, st)
      scale == convert_to_tensor(slf.scale, st)
      inv == TBin("FDiv", Scalar(Unit), TUn("FSquare", delta))
  IN TBin("FMul",
          TBin("FMul", TBin("FMul", Scalar(Half), TUn("FSquare", scale)),
               TUn("FExpm1", inv)),
          TBin("FAdd",
               TBin("FMul", TUn("FExp", inv),
                    TUn("FCosh", TBin("FDiv", TBin("FMul", Scalar(2 * Unit), gamma),
                                    delta))),
               Scalar(Unit)))
_variance(slf, st) ==
  LET gamma0 == convert_to_tensor(slf.gamma, st)
      delta0 == convert_to_tensor(slf.delta, st)
      scale0 == convert_to_tensor(slf.scale, st)
      gamma == TBin("FMul", gamma0,
                    Ones(_batch_shape_tensor(slf, st, gamma0, None, None, None)))
      delta == TBin("FMul", delta0,
                    Ones(_batch_shape_tensor(slf, st, None, delta0, None, None)))
      scale == TBin("FMul", scale0,
                    Ones(_batch_shape_tensor(slf, st, None, None, None, scale0)))
      inv == TBin("FDiv", Scalar(Unit), TUn("FSquare", delta))
  IN TBin("FMul",
          TBin("FMul", TBin("FMul", Scalar(Half), TUn("FSquare", scale)),
               TUn("FExpm1", inv)),
          TBin("FAdd",
               TBin("FMul", TUn("FExp", inv),
                    TUn("FCosh", TBin("FDiv", TBin("FMul", Scalar(2 * Unit), gamma),
                                    delta))),
               Scalar(Unit)))

(***************************************************************************)
(* Construction and the public operations.  Distribution.__init__ runs     *)
(* _parameter_control_dependencies(is_init=True); sample, log_prob, cdf,   *)
(* mean and variance run it with is_init=False before the method's body.   *)
(***************************************************************************)
NoObject == [dtype |-> "none"]
IncompatibleMessage == [text |-> "Incompatible shapes", shapes |-> <<>>]
DTypeMessage == [text |-> "Found incompatible dtypes", shapes |-> <<>>]
FloatMessage == [text |-> "Expected floating point type", shapes |-> <<>>]

\* a constructor whose dtype hint is float64
InitDTypeHintFloat64(args) ==
  common_dtype(<<args.gamma.dtype, args.delta.dtype, args.loc.dtype,
                 args.scale.dtype>>, "float64")
\* johnson_su.py: dtype = dtype_util.common_dtype([gamma, delta, loc, scale], tf.float32)
InitDType(args) ==
  common_dtype(<<args.gamma.dtype, args.delta.dtype, args.loc.dtype,
                 args.scale.dtype>>, "float32")
\* johnson_su.py: dtype_util.assert_same_float_dtype((self._gamma, ...))
InitAssertDType(slf) ==
  assert_same_float_dtype(<<slf.gamma.dtype, slf.delta.dtype, slf.loc.dtype,
                            slf.scale.dtype>>)

\* the variables the arguments refer to, with their values
StoreOf(args) == [p \in {q \in Params : args[q].ref} |-> args[p].value]

__init__(args) ==
  LET dtype == InitDType(args)
      slf == [gamma |-> StoreParameter(args.gamma, "gamma", dtype),
              delta |-> StoreParameter(args.delta, "delta", dtype),
              loc |-> StoreParameter(args.loc, "loc", dtype),
              scale |-> StoreParameter(args.scale, "scale", dtype),
              dtype |-> dtype,
              validate_args |-> args.validate_args]
  IN IF dtype = "TypeError"
     THEN [out |-> Raise("TypeError", DTypeMessage, <<>>), self |-> NoObject]
     ELSE IF ~InitAssertDType(slf)
     THEN [out |-> Raise("TypeError", FloatMessage, <<>>), self |-> NoObject]
     ELSE LET deps == _parameter_control_dependencies(slf, StoreOf(args), TRUE)
          IN [out |-> deps, self |-> IF deps.status = "ok" THEN slf ELSE NoObject]

\* a method's body under the object's control dependencies
Guarded(slf, st, val, u) ==
  LET deps == _parameter_control_dependencies(slf, st, FALSE)
  IN IF deps.status # "ok" THEN deps
     ELSE IF val.err THEN Raise("InvalidArgumentError", IncompatibleMessage, deps.checks)
     ELSE Ok(deps.checks, val, NoShape, u)

sample(slf, st, n, seed) ==
  LET r == _sample_n(slf, st, n, seed) IN Guarded(slf, st, r.val, r.u)
log_prob(slf, st, x) == Guarded(slf, st, _log_prob(slf, st, x), None)
cdf(slf, st, x) == Guarded(slf, st, _cdf(slf, st, x), None)
mean(slf, st) == Guarded(slf, st, _mean(slf, st), None)
variance(slf, st) == Guarded(slf, st, _variance(slf, st), None)

\* a shape query: the shape, or the failure of the broadcast
ShapeQuery(s) ==
  IF s.rank = "error" THEN Raise("InvalidArgumentError", IncompatibleMessage, <<>>)
  ELSE Ok(<<>>, None, s, None)

(***************************************************************************)
(* The inputs.                                                             *)
(***************************************************************************)
V(n) == n * Unit
Arg(dtype, ref, static, value) ==
  [dtype |-> dtype, ref |-> ref, static |-> static, value |-> value]

GammaValues == {Scalar(V(1)), Tensor(<<2>>, <<V(1), V(0 - 1)>>)}
DeltaValues == {Scalar(V(1)), Scalar(V(2)), Scalar(V(0 - 1)),
                Tensor(<<2>>, <<V(1), V(2)>>), Tensor(<<2>>, <<V(2), 0>>)}
LocValues == {Scalar(0), Tensor(<<3>>, <<0, V(1), V(1)>>),
              Tensor(<<2, 1>>, <<0, V(1)>>)}
ScaleValues == {Scalar(V(1)), Scalar(V(0 - 1)), Scalar(V(0 - 2)), Scalar(0),
                Tensor(<<2>>, <<V(1), V(2)>>), Tensor(<<2>>, <<V(0 - 2), V(1)>>)}
Values(p) == CASE p = "gamma" -> GammaValues
               [] p = "delta" -> DeltaValues
               [] p = "loc" -> LocValues
               [] p = "scale" -> ScaleValues
XValues == {Scalar(V(0 - 1)), Scalar(Half), Scalar(V(2))}
\* the parameters passed as variables: at most MaxRefs of them
RefSets == {R \in SUBSET Params : Cardinality(R) <= MaxRefs}

\* a value argument: a Python number or list, or a float32 variable
ValueArg(p, R, v) ==
  Arg(IF p \in R THEN "float32" ELSE "none", p \in R, Known(v.shape), v)
ValueArgs(g, d, l, s, R, va) ==
  [gamma |-> ValueArg("gamma", R, g), delta |-> ValueArg("delta", R, d),
   loc |-> ValueArg("loc", R, l), scale |-> ValueArg("scale", R, s),
   validate_args |-> va]

\* an argument of a given dtype
DTypeArg(dt, v) == Arg(dt, FALSE, Known(v.shape), v)
DTypeArgs(dg, dd, dl, ds, d, va) ==
  [gamma |-> DTypeArg(dg, Scalar(V(1))), delta |-> DTypeArg(dd, d),
   loc |-> DTypeArg(dl, Scalar(V(1))), scale |-> DTypeArg(ds, Scalar(V(1))),
   validate_args |-> va]

Shapes == {<<>>, <<2>>, <<3>>, <<2, 1>>, <<1, 3>>}
\* what may be known statically of a tensor of shape s: all of it, all but the
\* leading size, the rank only, or nothing
StaticsOf(s) ==
  {Known(s),
   Known([i \in 1..Len(s) |-> IF i = 1 THEN UnknownDim ELSE s[i]]),
   Known([i \in 1..Len(s) |-> UnknownDim]),
   UnknownRank}
\* the static shapes of an argument of shape s: s itself or, for a parameter
\* in U, one of those that leave something unknown
StaticChoices(p, s, U) ==
  IF p \in U THEN StaticsOf(s) \ {Known(s)} ELSE {Known(s)}
\* the parameters whose static shape is not fully known: at most MaxUnknown
UnknownSets == {U \in SUBSET Params : Cardinality(U) <= MaxUnknown}
ShapeArg(s, static) == Arg("float32", FALSE, static, Fill(s, V(1)))
ShapeArgs(g, sg, d, sd, l, sl, s, ss, va) ==
  [gamma |-> ShapeArg(g, sg), delta |-> ShapeArg(d, sd),
   loc |-> ShapeArg(l, sl), scale |-> ShapeArg(s, ss), validate_args |-> va]

(***************************************************************************)
(* The state machine.  pc is the caller's position: "new" before the       *)
(* constructor ran, "failed" after it raised, "ready" with the object in   *)
(* hand, "called" holding the outcome of the operation just run.  last is  *)
(* what the caller sees of the last step; assigned records that a variable *)
(* was assigned since the construction.                                    *)
(***************************************************************************)
Did(op, in, out) == [op |-> op, in |-> in, out |-> out]
Nothing == Did("none", <<>>, Ok(<<>>, None, NoShape, None))

Init ==
  /\ pc = "new"
  /\ self = NoObject
  /\ store = <<>>
  /\ last = Nothing
  /\ assigned = FALSE

\* JohnsonSU(**a)
New(a) ==
  LET r == __init__(a)
  IN /\ pc' = IF r.out.status = "ok" THEN "ready" ELSE "failed"
     /\ self' = r.self
     /\ store' = IF r.out.status = "ok" THEN StoreOf(a) ELSE <<>>
     /\ last' = Did("init", a, r.out)
     /\ assigned' = FALSE

Construct ==
  /\ pc = "new"
  /\ \E g \in GammaValues, d \in DeltaValues, l \in LocValues, s \in ScaleValues,
        R \in RefSets, va \in BOOLEAN :
          New(ValueArgs(g, d, l, s, R, va))

ConstructDTypes ==
  /\ pc = "new"
  /\ \E dg \in DType, dd \in DType, dl \in DType, ds \in DType,
        d \in {Scalar(V(1)), Scalar(V(0 - 1))}, va \in BOOLEAN :
          New(DTypeArgs(dg, dd, dl, ds, d, va))

ConstructShapes ==
  /\ pc = "new"
  /\ \E g \in Shapes, d \in Shapes, l \in Shapes, s \in Shapes, U \in UnknownSets :
    \E sg \in StaticChoices("gamma", g, U), sd \in StaticChoices("delta", d, U),
       sl \in StaticChoices("loc", l, U), ss \in StaticChoices("scale", s, U),
       va \in BOOLEAN :
         New(ShapeArgs(g, sg, d, sd, l, sl, s, ss, va))

\* the caller runs an operation and holds its outcome
Call(op, in, out) ==
  /\ pc = "ready"
  /\ pc' = "called"
  /\ last' = Did(op, in, out)
  /\ UNCHANGED <<self, store, assigned>>

Sample ==
  \E n \in 1..MaxN, seed \in 0..MaxSeed :
     Call("sample", <<n, seed>>, sample(self, store, n, seed))
LogProb == \E x \in XValues : Call("log_prob", x, log_prob(self, store, x))
Cdf == \E x \in XValues : Call("cdf", x, cdf(self, store, x))
Mean == Call("mean", <<>>, mean(self, store))
Variance == Call("variance", <<>>, variance(self, store))
BatchShape == Call("_batch_shape", <<>>, ShapeQuery(_batch_shape(self)))
BatchShapeTensor ==
  Call("_batch_shape_tensor", <<>>,
       ShapeQuery(_batch_shape_tensor(self, store, None, None, None, None)))
EventShape == Call("_event_shape", <<>>, ShapeQuery(_event_shape(self)))
EventShapeTensor ==
  Call("_event_shape_tensor", <<>>, ShapeQuery(_event_shape_tensor(self)))

\* the caller is done with the outcome
Return ==
  /\ pc = "called"
  /\ pc' = "ready"
  /\ last' = Nothing
  /\ UNCHANGED <<self, store, assigned>>

\* variable.assign(value): the caller gives a variable another value of its shape
Assign ==
  /\ pc = "ready"
  /\ \E p \in DOMAIN store :
       \E v \in Values(p) :
          /\ v.shape = store[p].shape
          /\ v # store[p]
          /\ store' = [store EXCEPT ![p] = v]
  /\ last' = Nothing
  /\ assigned' = TRUE
  /\ UNCHANGED <<pc, self>>

Next ==
  \/ Construct \/ ConstructDTypes
  \/ Sample \/ LogProb \/ Cdf \/ Mean \/ Variance
  \/ BatchShape \/ BatchShapeTensor \/ EventShape \/ EventShapeTensor
  \/ Return \/ Assign
Spec == Init /\ [][Next]_vars

\* the shape bookkeeping alone, over more shapes and static shapes
NextShape ==
  \/ ConstructShapes
  \/ Mean \/ Variance \/ BatchShape \/ BatchShapeTensor
  \/ Return
SpecShape == Init /\ [][NextShape]_vars

(***************************************************************************)
(* What the properties are stated in: the values the parameters have now,  *)
(* and broadcasting described position by position rather than folded.     *)
(***************************************************************************)
Constructed == pc \in {"ready", "called"}
\* the value a parameter has now: a variable's is whatever was assigned last
Current(p) == IF p \in DOMAIN store THEN store[p] ELSE self[p].value
CurrentShapes == [i \in 1..4 |-> Current(ParamNames[i]).shape]
StaticShapes(a) == [i \in 1..4 |-> a[ParamNames[i]].static]
FullyKnown(static) ==
  static.rank = "known" /\ \A i \in 1..Len(static.dims) : static.dims[i] # UnknownDim

\* the size of s at the k-th position from the right, 1 where s has none
DimFromRight(s, k) == IF k <= Len(s) THEN s[Len(s) + 1 - k] ELSE 1
Longest(shapes) ==
  CHOOSE n \in {Len(shapes[j]) : j \in 1..Len(shapes)} :
    \A j \in 1..Len(shapes) : Len(shapes[j]) <= n
\* the elementwise broadcast of shapes: at every position aligned from the
\* right, the one size other than 1, or 1 if there is none
BroadcastAll(shapes) ==
  LET n == Longest(shapes)
      Sizes(i) == {DimFromRight(shapes[j], n + 1 - i) : j \in 1..Len(shapes)} \ {1}
  IN IF \E i \in 1..n : Cardinality(Sizes(i)) > 1 THEN Incompatible
     ELSE Known([i \in 1..n |-> IF Sizes(i) = {} THEN 1
                                 ELSE CHOOSE d \in Sizes(i) : TRUE])
\* static shapes that no tensors can have and be broadcast together: two of
\* them hold different known sizes, neither of them 1, at the same position
StaticallyIncompatible(statics) ==
  \E i \in 1..Len(statics), j \in 1..Len(statics) :
    /\ i < j
    /\ statics[i].rank = "known" /\ statics[j].rank = "known"
    /\ \E k \in 1..Len(statics[i].dims) :
         LET a == DimFromRight(statics[i].dims, k)
             b == DimFromRight(statics[j].dims, k)
         IN a > 1 /\ b > 1 /\ a # b
\* a partially known shape says nothing false of dims
Describes(static, dims) ==
  \/ static.rank = "unknown"
  \/ /\ static.rank = "known"
     /\ Len(static.dims) = Len(dims)
     /\ \A i \in 1..Len(dims) : static.dims[i] \in {UnknownDim, dims[i]}
\* the static shapes of the parameters ahead of the first one of unknown rank
BeforeUnknownRank(statics) ==
  LET unknown == {i \in 1..Len(statics) : statics[i].rank = "unknown"}
  IN IF unknown = {} THEN statics
     ELSE SubSeq(statics, 1, (CHOOSE i \in unknown : \A j \in unknown : i <= j) - 1)

(***************************************************************************)
(* C1.  For parameter shapes that can be broadcast together, the dynamic   *)
(* batch shape is their elementwise broadcast; so is the static batch      *)
(* shape when the four static shapes are fully known, the two then being   *)
(* equal; a static batch shape that is partially known says nothing false  *)
(* of the dynamic one.                                                     *)
(***************************************************************************)
C1_BatchShapeIsBroadcast ==
  LET b == BroadcastAll(CurrentShapes)
      selfStatics == [i \in 1..4 |-> self[ParamNames[i]].static]
  IN (pc = "called" /\ b.rank = "known") =>
       /\ last.op = "_batch_shape_tensor" =>
            last.out.status = "ok" /\ last.out.shape = b
       /\ (last.op = "_batch_shape" /\ \A i \in 1..4 : FullyKnown(selfStatics[i])) =>
            /\ last.out.status = "ok" /\ last.out.shape = b
            /\ last.out.shape = _batch_shape_tensor(self, store, None, None, None, None)
       /\ last.op = "_batch_shape" =>
            last.out.status = "ok" /\ Describes(last.out.shape, b.dims)
\* scalar gamma with delta, loc and scale of unlike shapes: batch shape [2, 3]
C1_Witness ==
  /\ pc = "called" /\ last.op = "_batch_shape_tensor"
  /\ CurrentShapes = <<<<>>, <<2, 1>>, <<3>>, <<1, 3>>>>
  /\ last.out.shape = Known(<<2, 3>>)

(***************************************************************************)
(* C9.  mean() and variance() return a tensor of the full batch shape, the *)
(* broadcast of all four parameter shapes, also when loc alone has the     *)
(* largest shape.                                                          *)
(***************************************************************************)
C9_MomentsHaveBatchShape ==
  LET b == BroadcastAll(CurrentShapes)
  IN (pc = "called" /\ last.op \in {"mean", "variance"} /\ b.rank = "known") =>
       /\ last.out.status = "ok"
       /\ last.out.val.shape = b.dims
       /\ Len(last.out.val.elems) = Prod(b.dims)
\* variance, which does not read loc, when only loc is not a scalar
C9_Witness ==
  /\ pc = "called" /\ last.op = "variance"
  /\ CurrentShapes = <<<<>>, <<>>, <<2, 1>>, <<>>>>
  /\ last.out.val.shape = <<2, 1>>

(***************************************************************************)
(* C3 as stated.  The constructor raises ValueError exactly when the       *)
(* static shapes of the four parameters cannot be broadcast together, the  *)
(* message carrying the four shapes; otherwise no shape error comes before *)
(* the first operation that broadcasts the parameters.                     *)
(***************************************************************************)
C3_AsStated ==
  (last.op = "init" /\ last.out.status # "TypeError") =>
     /\ last.out.status = "ValueError" <=> StaticallyIncompatible(StaticShapes(last.in))
     /\ last.out.status = "ValueError" =>
          last.out.msg.shapes = StaticShapes(last.in)

(***************************************************************************)
(* C3.  The constructor raises ValueError exactly when the static shapes   *)
(* of the parameters ahead of the first parameter of unknown rank, in the  *)
(* order gamma, delta, loc, scale, cannot be broadcast together, whatever  *)
(* validate_args is; the message carries the four static shapes.  With no  *)
(* ValueError no shape error is raised at construction, and shapes that    *)
(* cannot be broadcast fail the first operation that broadcasts them.      *)
(***************************************************************************)
C3_StaticShapeCheck ==
  /\ (last.op = "init" /\ last.out.status # "TypeError") =>
       /\ last.out.status = "ValueError" <=>
            StaticallyIncompatible(BeforeUnknownRank(StaticShapes(last.in)))
       /\ last.out.status = "ValueError" =>
            /\ last.out.msg.shapes = StaticShapes(last.in)
            /\ pc = "failed"
       /\ (last.out.status # "ValueError" /\ \A p \in Params :
              \A k \in 1..Len(last.in[p].value.elems) : last.in[p].value.elems[k] > 0) =>
            last.out.status = "ok" /\ pc = "ready"
  /\ (pc = "called" /\ last.op \in {"mean", "variance", "_batch_shape_tensor"}
        /\ BroadcastAll(CurrentShapes).rank = "error") =>
       /\ last.out.status = "InvalidArgumentError"
       /\ last.out.msg = IncompatibleMessage
\* shapes [2] and [3] known at construction
C3_Witness ==
  /\ pc = "failed" /\ last.op = "init" /\ last.out.status = "ValueError"
  /\ last.in.validate_args = FALSE
  /\ last.in.delta.static = Known(<<2>>) /\ last.in.scale.static = Known(<<3>>)
  /\ last.out.msg.shapes[2] = Known(<<2>>) /\ last.out.msg.shapes[4] = Known(<<3>>)

(***************************************************************************)
(* The value properties: what they are stated in.                          *)
(***************************************************************************)
NumericOps == {"sample", "log_prob", "cdf", "mean", "variance"}
\* an operation by its name
Run(op, in, slf, st) ==
  CASE op = "sample" -> sample(slf, st, in[1], in[2])
    [] op = "log_prob" -> log_prob(slf, st, in)
    [] op = "cdf" -> cdf(slf, st, in)
    [] op = "mean" -> mean(slf, st)
    [] op = "variance" -> variance(slf, st)
Positive(t) == \A k \in 1..Len(t.elems) : t.elems[k] > 0
Negative(t) == \A k \in 1..Len(t.elems) : t.elems[k] < 0
NonPositive(t) == \E k \in 1..Len(t.elems) : t.elems[k] <= 0
DomainError(out) ==
  out.status = "InvalidArgumentError" /\ out.msg \in {DeltaMessage, ScaleMessage}
ArgDTypes(a) == [i \in 1..4 |-> a[ParamNames[i]].dtype]
\* the arguments that carry a dtype carry one and the same floating dtype
CommonFloat(dtypes) ==
  \E t \in {"float32", "float64"} : \A i \in 1..Len(dtypes) : dtypes[i] \in {"none", t}

(***************************************************************************)
(* C2 as stated.  With delta and scale fixed, the constructor raises a     *)
(* domain error if and only if validate_args is true and some element of   *)
(* delta or of scale is not positive, and the error names such an          *)
(* argument; with validate_args false neither the constructor nor any      *)
(* operation raises a domain error.                                        *)
(***************************************************************************)
C2_AsStated ==
  /\ (last.op = "init" /\ ~last.in.delta.ref /\ ~last.in.scale.ref) =>
       /\ DomainError(last.out) <=>
            /\ last.in.validate_args
            /\ NonPositive(last.in.delta.value) \/ NonPositive(last.in.scale.value)
       /\ last.out.msg = DeltaMessage => NonPositive(last.in.delta.value)
       /\ last.out.msg = ScaleMessage => NonPositive(last.in.scale.value)
  /\ (last.op # "none" /\ Constructed /\ ~self.validate_args) => ~DomainError(last.out)

(***************************************************************************)
(* C2.  With delta and scale fixed, the constructor raises a domain error  *)
(* if and only if the dtypes of the arguments agree on a floating type,    *)
(* their static shapes can be broadcast together, validate_args is true    *)
(* and some element of delta or of scale is not positive; the error names  *)
(* an argument that has such an element.  When the dtypes or the static    *)
(* shapes fail, the type or shape error is raised instead.  With           *)
(* validate_args false neither the constructor nor any operation raises a  *)
(* domain error.                                                           *)
(***************************************************************************)
C2_DomainErrorAtConstruction ==
  /\ (last.op = "init" /\ ~last.in.delta.ref /\ ~last.in.scale.ref) =>
       /\ DomainError(last.out) <=>
            /\ CommonFloat(ArgDTypes(last.in))
            /\ ~StaticallyIncompatible(StaticShapes(last.in))
            /\ last.in.validate_args
            /\ NonPositive(last.in.delta.value) \/ NonPositive(last.in.scale.value)
       /\ DomainError(last.out) => pc = "failed"
       /\ last.out.msg = DeltaMessage => NonPositive(last.in.delta.value)
       /\ last.out.msg = ScaleMessage => NonPositive(last.in.scale.value)
       /\ ~CommonFloat(ArgDTypes(last.in)) => last.out.status = "TypeError"
       /\ (CommonFloat(ArgDTypes(last.in))
             /\ StaticallyIncompatible(StaticShapes(last.in))) =>
            last.out.status = "ValueError"
  /\ (last.op = "init" /\ ~last.in.validate_args) => ~DomainError(last.out)
  /\ (last.op # "none" /\ Constructed /\ ~self.validate_args) => ~DomainError(last.out)
\* one element of a fixed scale is negative, delta is positive
C2_Witness ==
  /\ pc = "failed" /\ last.op = "init" /\ last.in.validate_args
  /\ ~last.in.scale.ref /\ ~last.in.delta.ref
  /\ last.in.scale.value = Tensor(<<2>>, <<V(0 - 2), V(1)>>)
  /\ Positive(last.in.delta.value)
  /\ last.out.status = "InvalidArgumentError" /\ last.out.msg = ScaleMessage

(***************************************************************************)
(* C4.  sample(n, seed) returns a tensor of shape [n] followed by the      *)
(* batch shape the parameters have at the call; the uniform variates it    *)
(* draws have that shape and are a function of n, the batch shape and the  *)
(* seed alone, not of the parameter values.                                *)
(***************************************************************************)
C4_SampleShape ==
  (pc = "called" /\ last.op = "sample") =>
    LET b == BroadcastAll(CurrentShapes)
        n == last.in[1]
    IN /\ ~self.validate_args => last.out.status = "ok"
       /\ last.out.status = "ok" =>
            /\ b.rank = "known"
            /\ last.out.val.shape = <<n>> \o b.dims
            /\ Len(last.out.val.elems) = n * Prod(b.dims)
            /\ last.out.u = random_uniform(<<n>> \o b.dims, SeedStream(last.in[2]))
\* one draw over the batch shape [2, 2] of delta [2] and loc [2, 1]
C4_Witness ==
  /\ pc = "called" /\ last.op = "sample" /\ last.out.status = "ok"
  /\ last.in[1] = 1
  /\ CurrentShapes = <<<<>>, <<2>>, <<2, 1>>, <<>>>>
  /\ last.out.val.shape = <<1, 2, 2>>
  /\ last.out.u.shape = <<1, 2, 2>>

(***************************************************************************)
(* C5.  The constructor raises a type error unless the arguments that      *)
(* carry a dtype carry one and the same floating dtype; the four stored    *)
(* parameters then have that dtype, which is float32 when no argument      *)
(* carries one.                                                            *)
(***************************************************************************)
C5_CommonFloatDType ==
  last.op = "init" =>
    LET dtypes == ArgDTypes(last.in)
    IN /\ last.out.status = "TypeError" <=> ~CommonFloat(dtypes)
       /\ last.out.status = "TypeError" => pc = "failed"
       /\ last.out.status = "ok" =>
            /\ self.dtype \in {"float32", "float64"}
            /\ \A p \in Params : self[p].dtype = self.dtype
            /\ \A i \in 1..4 : dtypes[i] \in {"none", self.dtype}
            /\ (\A i \in 1..4 : dtypes[i] = "none") => self.dtype = "float32"
\* two floating dtypes that differ
C5_Witness ==
  /\ pc = "failed" /\ last.op = "init" /\ last.out.status = "TypeError"
  /\ last.in.gamma.dtype = "float32" /\ last.in.scale.dtype = "float64"
  /\ last.in.delta.dtype = "none" /\ last.in.loc.dtype = "none"

(***************************************************************************)
(* C6.  The event shape, static and dynamic, is the empty shape whatever   *)
(* the parameters are.                                                     *)
(***************************************************************************)
C6_EventShapeIsScalar ==
  (pc = "called" /\ last.op \in {"_event_shape", "_event_shape_tensor"}) =>
    /\ last.out.status = "ok"
    /\ last.out.shape = Known(<<>>)
    /\ last.out.shape.dims = <<>>
\* a batch of distributions over a variable that was assigned
C6_Witness ==
  /\ pc = "called" /\ last.op = "_event_shape_tensor"
  /\ assigned /\ "delta" \in DOMAIN store
  /\ BroadcastAll(CurrentShapes) = Known(<<2, 2>>)
  /\ last.out.shape = Known(<<>>)

\* a distribution built now from the current values: its arguments
FixedArg(v) == Arg("none", FALSE, Known(v.shape), v)
FreshArgs ==
  [gamma |-> FixedArg(Current("gamma")), delta |-> FixedArg(Current("delta")),
   loc |-> FixedArg(Current("loc")), scale |-> FixedArg(Current("scale")),
   validate_args |-> self.validate_args]

(***************************************************************************)
(* C7.  sample, log_prob, cdf, mean and variance of a distribution built   *)
(* over variables use the values the variables have at the call: after any *)
(* assignments the outcome is that of the same operation on a distribution *)
(* newly built from those values, the failure of that construction         *)
(* included; the dynamic batch shape is the broadcast of the shapes those  *)
(* values have.                                                            *)
(***************************************************************************)
C7_ReferencesReadAtCall ==
  /\ (pc = "called" /\ DOMAIN store # {} /\ last.op \in NumericOps) =>
       LET fresh == __init__(FreshArgs)
       IN IF fresh.out.status # "ok"
          THEN last.out.status = fresh.out.status /\ last.out.msg = fresh.out.msg
          ELSE LET o == Run(last.op, last.in, fresh.self, <<>>)
               IN /\ last.out.status = "ok" /\ o.status = "ok"
                  /\ last.out.val = o.val
                  /\ last.out.u = o.u
  /\ (pc = "called" /\ DOMAIN store # {} /\ last.op = "_batch_shape_tensor") =>
       last.out = ShapeQuery(BroadcastAll(CurrentShapes))
\* log_prob after the variable delta was assigned
C7_Witness ==
  /\ pc = "called" /\ last.op = "log_prob" /\ last.out.status = "ok"
  /\ assigned /\ DOMAIN store = {"delta"}
  /\ store["delta"] = Scalar(V(2))
  /\ last.out.val = log_prob(__init__(FreshArgs).self, <<>>, last.in).val
  /\ \A k \in 1..Len(last.out.val.elems) : last.out.val.elems[k] # NaN

\* the assertions that run over the parameters in checked, in order, up to
\* the first that fails
ExpectedChecks(checked, vals) ==
  LET d == IF "delta" \in checked THEN <<"delta">> ELSE <<>>
  IN IF "delta" \in checked /\ ~Positive(vals["delta"]) THEN d
     ELSE IF "scale" \in checked THEN d \o <<"scale">> ELSE d

(***************************************************************************)
(* C8.  With validate_args true each of delta and scale is asserted        *)
(* positive in exactly one phase: a fixed one by the constructor and never *)
(* again, a variable by every numeric operation and not by the             *)
(* constructor.  A variable assigned a value that is not positive fails    *)
(* the next operation with a domain error naming it, and the operations    *)
(* succeed again once its value is positive.                               *)
(***************************************************************************)
C8_OnePhasePerParameter ==
  /\ (last.op = "init" /\ last.in.validate_args
        /\ last.out.status \notin {"TypeError", "ValueError"}) =>
       LET fixed == {p \in {"delta", "scale"} : ~last.in[p].ref}
           vals == [p \in Params |-> last.in[p].value]
       IN /\ last.out.checks = ExpectedChecks(fixed, vals)
          /\ last.out.status = "ok" <=> \A p \in fixed : Positive(vals[p])
  /\ (pc = "called" /\ self.validate_args /\ last.op \in NumericOps) =>
       LET refs == {"delta", "scale"} \cap DOMAIN store
           vals == [p \in Params |-> Current(p)]
       IN /\ last.out.checks = ExpectedChecks(refs, vals)
          /\ last.out.status = "ok" <=> \A p \in refs : Positive(vals[p])
          /\ last.out.status # "ok" =>
               /\ last.out.status = "InvalidArgumentError"
               /\ last.out.msg = IF "delta" \in refs /\ ~Positive(vals["delta"])
                                 THEN DeltaMessage ELSE ScaleMessage
\* mean() after the variable delta was assigned a value that is not positive
C8_Witness ==
  /\ pc = "called" /\ last.op = "mean" /\ self.validate_args
  /\ assigned /\ DOMAIN store = {"delta"}
  /\ NonPositive(store["delta"])
  /\ last.out.status = "InvalidArgumentError" /\ last.out.msg = DeltaMessage
  /\ last.out.checks = <<"delta">>

(***************************************************************************)
(* A negative scale with validate_args false and delta positive, against   *)
(* JohnsonSU(-gamma, delta, loc, -scale).                                  *)
(***************************************************************************)
FixedParam(name, v) ==
  [ref |-> FALSE, name |-> name, dtype |-> self.dtype, static |-> Known(v.shape),
   value |-> v]
\* JohnsonSU(-gamma, delta, loc, -scale) over the current values
Mirrored ==
  [gamma |-> FixedParam("gamma", TUn("FNeg", Current("gamma"))),
   delta |-> FixedParam("delta", Current("delta")),
   loc |-> FixedParam("loc", Current("loc")),
   scale |-> FixedParam("scale", TUn("FNeg", Current("scale"))),
   dtype |-> self.dtype, validate_args |-> self.validate_args]
\* the sample slf makes of the uniform variates u
SampleOf(slf, u) ==
  TBin("FAdd",
       TBin("FMul",
            TUn("FSinh", TBin("FDiv", TBin("FSub", TUn("FNdtri", u), slf.gamma.value),
                            slf.delta.value)),
            slf.scale.value),
       slf.loc.value)
NegativeScaleCase ==
  /\ pc = "called" /\ ~self.validate_args
  /\ \A p \in Params : "value" \in DOMAIN self[p] \/ p \in DOMAIN store
  /\ Positive(Current("delta")) /\ Negative(Current("scale"))
\* cdf, as the object computes it now, does not grow from x to any larger x
Leq(a, b) == a <= b
Geq(a, b) == a >= b
CdfOrdered(up) ==
  \A x2 \in XValues :
    x2.elems[1] > last.in.elems[1] =>
      LET c2 == cdf(self, store, x2).val
      IN \A k \in 1..Len(c2.elems) :
           IF up THEN Leq(last.out.val.elems[k], c2.elems[k])
           ELSE Geq(last.out.val.elems[k], c2.elems[k])

=============================================================================
